---- MODULE Spec2Model ----
(***************************************************************************)
(* State-machine model of the HumanPoseEstimation React component of       *)
(* src/src/post.jsx: the component state (images, currentImageIndex,       *)
(* poses, isLoading, error), the canvas, the pending file decodes of       *)
(* loadImages, the estimatePose calls with their two suspension points     *)
(* (posenet.load, estimateSinglePose), and the download link.              *)
(*                                                                         *)
(* An Image object is identified by where it was created: <<u, k>> is the  *)
(* k-th file of the u-th upload, <<0, n>> the n-th preloaded image.        *)
(* Confidence scores are in hundredths (50 stands for 0.5).                *)
(*                                                                         *)
(* calls keeps every estimatePose call, settled ones included, in start    *)
(* order.  Three fields of a call are bookkeeping for the properties and   *)
(* are read by no action: alone (started by a selection with nothing in    *)
(* flight and not followed by another selection, upload completion or      *)
(* preload), posesAtStart and canvasAtStart (what was displayed when the   *)
(* call started; cleared when the call settles).                           *)
(***************************************************************************)
EXTENDS Integers, Sequences, FiniteSets, TLC

\* ---- bounds of the model ----
\* files in one upload
MaxFiles == 2
\* user inputs in a run: file selections, option selections, preloaded images
MaxEvents == 3
\* keypoints of a pose (the library returns 17)
NumKeypoints == 2

\* ---- program constants ----
MinConfidence == 50
Scores == {MinConfidence - 10, MinConfidence, MinConfidence + 10}
null == "null"
ErrorMessage == "Failed to estimate pose. Please try another image."
NoImage == <<0, 0>>
BlankCanvas == [img |-> NoImage, markers |-> <<>>, segments |-> <<>>]

VARIABLES
  mode,               \* prop mode: "upload" or "preloaded"
  images,             \* useState([]) : sequence of Image objects
  currentImageIndex,  \* useState(0)  : 0-based index
  poses,              \* useState([]) : <<>> or <<pose>>
  isLoading,          \* useState(false)
  error,              \* useState(null)
  canvas,             \* what canvasRef.current shows
  uploads,            \* loadImages calls: per file the state of its decode
  calls,              \* estimatePose calls in start order, with their position
  preloads,           \* number of preloadedImage props received so far
  download            \* <<>>, or the last link clicked by handleDownload

vars == <<mode, images, currentImageIndex, poses, isLoading, error, canvas,
          uploads, calls, preloads, download>>

state == <<images, currentImageIndex, poses, isLoading, error>>

\* ---- estimatePose calls ----
InFlightPc == {"load", "estimate"}

InFlight(cs) == {c \in 1..Len(cs) : cs[c].pc \in InFlightPc}

\* Bookkeeping on a new selection, upload completion or preload: no call in
\* flight is alone any more.
Disturb(cs) == [c \in 1..Len(cs) |->
                  IF cs[c].pc \in InFlightPc THEN [cs[c] EXCEPT !.alone = FALSE]
                  ELSE cs[c]]

\* estimatePose up to its first await (posenet.load).  src is "upload",
\* "select" or "preload"; from is the upload number or the selected index.
EstimatePose(img, src, from) ==
  /\ isLoading' = TRUE
  /\ error' = null
  /\ calls' = Append(Disturb(calls),
                     [img |-> img, src |-> src, from |-> from, pc |-> "load",
                      alone |-> (src = "select" /\ InFlight(calls) = {}),
                      posesAtStart |-> poses, canvasAtStart |-> canvas])

\* The user inputs so far: file selections, option selections, preloaded images.
Events == Len(uploads) + Cardinality({c \in 1..Len(calls) : calls[c].src # "upload"})

\* ---- drawing ----
Position(k) == [x |-> k, y |-> k + NumKeypoints]

toTuple(p) == <<p.y, p.x>>

MeetsConfidenceBug(score, minConfidence) == score >= minConfidence
MeetsConfidence(score, minConfidence) == score > minConfidence

\* drawKeypoints: forEach keypoint, one filled arc at (x, y) when its score
\* exceeds minConfidence.
drawKeypoints(keypoints, minConfidence) ==
  LET arcs[i \in 0..Len(keypoints)] ==
        IF i = 0 THEN <<>>
        ELSE IF MeetsConfidence(keypoints[i].score, minConfidence)
               THEN Append(arcs[i - 1], [x |-> keypoints[i].position.x,
                                         y |-> keypoints[i].position.y])
               ELSE arcs[i - 1]
  IN arcs[Len(keypoints)]

\* posenet.getAdjacentKeyPoints over a chain topology: the library keeps a pair
\* unless either score is below minConfidence.
getAdjacentKeyPoints(keypoints, minConfidence) ==
  LET pairs[i \in 0..(Len(keypoints) - 1)] ==
        IF i = 0 THEN <<>>
        ELSE IF keypoints[i].score < minConfidence
                  \/ keypoints[i + 1].score < minConfidence
               THEN pairs[i - 1]
               ELSE Append(pairs[i - 1], <<keypoints[i], keypoints[i + 1]>>)
  IN pairs[Len(keypoints) - 1]

\* drawSegment([ay, ax], [by, bx]): moveTo(ax, ay), lineTo(bx, by).
drawSegment(a, b) == [from |-> [x |-> a[2], y |-> a[1]], to |-> [x |-> b[2], y |-> b[1]]]

drawSkeleton(keypoints, minConfidence) ==
  LET adjacentKeyPoints == getAdjacentKeyPoints(keypoints, minConfidence)
  IN [i \in 1..Len(adjacentKeyPoints) |->
        drawSegment(toTuple(adjacentKeyPoints[i][1].position),
                    toTuple(adjacentKeyPoints[i][2].position))]

\* drawResults(img, [pose]): the bitmap, then the markers and the skeleton.
drawResults(img, ps) ==
  [img |-> img,
   markers |-> drawKeypoints(ps[1].keypoints, MinConfidence),
   segments |-> drawSkeleton(ps[1].keypoints, MinConfidence)]

\* The pose estimateSinglePose returns for img, with the given scores.
Pose(img, scores) ==
  [img |-> img,
   keypoints |-> [k \in 1..NumKeypoints |->
                    [score |-> scores[k], position |-> Position(k)]]]

Init ==
  /\ mode \in {"upload", "preloaded"}
  /\ images = <<>>
  /\ currentImageIndex = 0
  /\ poses = <<>>
  /\ isLoading = FALSE
  /\ error = null
  /\ canvas = BlankCanvas
  /\ uploads = <<>>
  /\ calls = <<>>
  /\ preloads = 0
  /\ download = <<>>

\* ---- loadImages ----
AllResolvedBug(u) == u.n > 0 /\ u.status[1] = "done"
\* Promise.all(readers) resolves when every reader promise has resolved.
AllResolved(u) == \A k \in 1..u.n : u.status[k] = "done"

loadedImages(n, u) == [k \in 1..n |-> <<u, k>>]

\* The .then callback of Promise.all(readers) for upload number u of n files.
ThenLoaded(n, u) ==
  /\ images' = loadedImages(n, u)
  /\ IF n > 0
       THEN EstimatePose(loadedImages(n, u)[1], "upload", u)
       ELSE /\ calls' = Disturb(calls)
            /\ UNCHANGED <<isLoading, error>>

\* onChange of the file input with n files.
LoadImages(n) ==
  /\ mode = "upload"
  /\ Events < MaxEvents
  /\ uploads' = Append(uploads, [n |-> n, status |-> [k \in 1..n |-> "reading"]])
  /\ IF n = 0
       THEN ThenLoaded(0, Len(uploads) + 1)
       ELSE UNCHANGED <<images, isLoading, error, calls>>
  /\ UNCHANGED <<mode, currentImageIndex, poses, canvas, preloads, download>>

\* reader.onload: the file is read, the Image starts decoding.
ReaderOnload(u, k) ==
  /\ uploads[u].status[k] = "reading"
  /\ uploads' = [uploads EXCEPT ![u].status[k] = "decoding"]
  /\ UNCHANGED <<mode, images, currentImageIndex, poses, isLoading, error,
                 canvas, calls, preloads, download>>

\* img.onload: resolve(img); when it was the last one, Promise.all resolves
\* and its callback runs before any other event.
ImgOnload(u, k) ==
  /\ uploads[u].status[k] = "decoding"
  /\ uploads' = [uploads EXCEPT ![u].status[k] = "done"]
  /\ IF AllResolved(uploads'[u])
       THEN ThenLoaded(uploads[u].n, u)
       ELSE UNCHANGED <<images, isLoading, error, calls>>
  /\ UNCHANGED <<mode, currentImageIndex, poses, canvas, preloads, download>>

\* A read or decode error: no handler is installed, the promise never settles.
DecodeError(u, k) ==
  /\ uploads[u].status[k] \in {"reading", "decoding"}
  /\ uploads' = [uploads EXCEPT ![u].status[k] = "failed"]
  /\ UNCHANGED <<mode, images, currentImageIndex, poses, isLoading, error,
                 canvas, calls, preloads, download>>

\* ---- useEffect on preloadedImage ----
Preload ==
  /\ mode = "preloaded"
  /\ Events < MaxEvents
  /\ preloads' = preloads + 1
  /\ images' = << <<0, preloads + 1>> >>
  /\ EstimatePose(<<0, preloads + 1>>, "preload", preloads + 1)
  /\ UNCHANGED <<mode, currentImageIndex, poses, canvas, uploads, download>>

\* ---- handleImageSelect ----
SelectedImageBug(imgs, index) == imgs[1]
SelectedImage(imgs, index) == imgs[index + 1]

\* onChange of the <select value={currentImageIndex}>: one option per image,
\* fired when the chosen option differs from the one shown.
handleImageSelect(index) ==
  /\ Len(images) > 0
  /\ index \in 0..(Len(images) - 1)
  /\ index # currentImageIndex
  /\ Events < MaxEvents
  /\ currentImageIndex' = index
  /\ EstimatePose(SelectedImage(images, index), "select", index)
  /\ UNCHANGED <<mode, images, poses, canvas, uploads, preloads, download>>

\* ---- estimatePose after its awaits ----
\* posenet.load resolved: estimateSinglePose(img) is requested.
LoadResolved(c) ==
  /\ calls[c].pc = "load"
  /\ calls' = [calls EXCEPT ![c].pc = "estimate"]
  /\ UNCHANGED <<mode, images, currentImageIndex, poses, isLoading, error,
                 canvas, uploads, preloads, download>>

\* The catch block, then setIsLoading(false).
Rejected(c) ==
  /\ calls' = [calls EXCEPT ![c].pc = "failed", ![c].posesAtStart = <<>>,
                            ![c].canvasAtStart = BlankCanvas]
  /\ error' = ErrorMessage
  /\ isLoading' = FALSE
  /\ UNCHANGED <<mode, images, currentImageIndex, poses, canvas, uploads,
                 preloads, download>>

LoadRejected(c) ==
  /\ calls[c].pc = "load"
  /\ Rejected(c)

EstimateRejected(c) ==
  /\ calls[c].pc = "estimate"
  /\ Rejected(c)

ResultImageBug(c, imgs, index) == IF index < Len(imgs) THEN imgs[index + 1] ELSE c.img
\* The img the call was started with (the closure's parameter).
ResultImage(c, imgs, index) == c.img

\* estimateSinglePose resolved with a pose: setPoses, drawResults,
\* setIsLoading(false).
EstimateResolved(c, scores) ==
  /\ calls[c].pc = "estimate"
  /\ LET img == ResultImage(calls[c], images, currentImageIndex)
         pose == Pose(img, scores)
     IN /\ poses' = <<pose>>
        /\ canvas' = drawResults(img, <<pose>>)
  /\ isLoading' = FALSE
  /\ calls' = [calls EXCEPT ![c].pc = "ok", ![c].posesAtStart = <<>>,
                            ![c].canvasAtStart = BlankCanvas]
  /\ UNCHANGED <<mode, images, currentImageIndex, error, uploads, preloads,
                 download>>

\* ---- handleDownload ----
FileNameBug(index) == "pose_estimation_" \o ToString(index) \o ".png"
FileName(index) == "pose_estimation_" \o ToString(index + 1) \o ".png"

\* The button is rendered when images.length > 0 && !isLoading.
handleDownload ==
  /\ Len(images) > 0
  /\ ~isLoading
  /\ download' = <<[name |-> FileName(currentImageIndex), href |-> canvas]>>
  /\ UNCHANGED <<mode, images, currentImageIndex, poses, isLoading, error,
                 canvas, uploads, calls, preloads>>

Next ==
  \/ \E n \in 0..MaxFiles : LoadImages(n)
  \/ \E u \in 1..Len(uploads) : \E k \in 1..uploads[u].n : ReaderOnload(u, k)
  \/ \E u \in 1..Len(uploads) : \E k \in 1..uploads[u].n : ImgOnload(u, k)
  \/ \E u \in 1..Len(uploads) : \E k \in 1..uploads[u].n : DecodeError(u, k)
  \/ Preload
  \/ \E index \in 0..(MaxFiles - 1) : handleImageSelect(index)
  \/ \E c \in 1..Len(calls) : LoadResolved(c)
  \/ \E c \in 1..Len(calls) : LoadRejected(c)
  \/ \E c \in 1..Len(calls) : EstimateRejected(c)
  \/ \E c \in 1..Len(calls) : \E scores \in [1..NumKeypoints -> Scores] :
       EstimateResolved(c, scores)
  \/ handleDownload

Spec == Init /\ [][Next]_vars

\* ---- properties ----
Shown(ps) == IF ps = <<>> THEN NoImage ELSE ps[1].img

SelectedShown(img) ==
  /\ currentImageIndex < Len(images)
  /\ img = images[currentImageIndex + 1]

\* C1: in every reachable state the pose held in state and drawn on the canvas
\* is the pose computed for the image at the selected index, or is empty
\* (stated for the upload component, whose inputs are uploads and selections,
\* in the states that have an image to select).
C1_DisplayedPoseMatchesSelection ==
  (mode = "upload" /\ Len(images) > 0)
    => /\ poses = <<>> \/ SelectedShown(poses[1].img)
       /\ canvas.img = NoImage \/ SelectedShown(canvas.img)

\* C2: isLoading is true exactly in the states in which at least one
\* estimatePose call has started and not yet resolved.
C2_LoadingIffInFlight ==
  mode = "upload" => (isLoading <=> (InFlight(calls) # {}))

\* C3: once no inference is in flight, the error message is non-null if and
\* only if the most recently started estimatePose call rejected.
C3_ErrorIffLatestRejected ==
  (mode = "upload" /\ InFlight(calls) = {} /\ Len(calls) > 0)
    => ((error # null) <=> (calls[Len(calls)].pc = "failed"))

\* C4: a selection of index i made while nothing is in flight and followed by
\* no other selection, upload completion or preload shows, when it resolves
\* successfully, index i and the pose estimated for images[i].
C4_AloneSelectionShowsSelected ==
  [][\A c \in 1..Len(calls) :
       (calls[c].alone /\ calls[c].pc = "estimate" /\ calls'[c].pc = "ok")
         => /\ currentImageIndex' = calls[c].from
            /\ calls[c].from < Len(images')
            /\ Len(poses') = 1
            /\ poses'[1].img = images'[calls[c].from + 1]
            /\ canvas'.img = images'[calls[c].from + 1]]_vars

\* An alone selection of a non-zero index has resolved successfully.
C4_Witness ==
  /\ Len(calls) > 0
  /\ LET c == calls[Len(calls)]
     IN /\ c.alone /\ c.src = "select" /\ c.pc = "ok" /\ c.from > 0
        /\ currentImageIndex = c.from
        /\ Shown(poses) = c.img

FirstDecoded(u) == uploads[u].n > 0 /\ uploads[u].status[1] = "done"

AllDecoded(u) ==
  /\ uploads[u].n > 0
  /\ \A k \in 1..uploads[u].n : uploads[u].status[k] = "done"

StartedBy(u) == {c \in 1..Len(calls) : calls[c].src = "upload" /\ calls[c].from = u}

\* C5 as stated: the inference for the first image has been started as soon as
\* the first file is decoded, whatever the state of the other decodes.
C5_InferenceStartsAtFirstDecode ==
  \A u \in 1..Len(uploads) : FirstDecoded(u) => StartedBy(u) # {}

\* C5 amended: the inference for the first image of an upload has been started
\* exactly when every file of the upload is decoded; it is the only one the
\* upload starts, and none is started while a decode is pending or has failed.
C5_InferenceStartsWhenAllDecoded ==
  \A u \in 1..Len(uploads) :
    /\ (StartedBy(u) # {}) <=> AllDecoded(u)
    /\ Cardinality(StartedBy(u)) <= 1
    /\ \A c \in StartedBy(u) : calls[c].img = <<u, 1>>

\* An upload of several files has started its inference, and another one,
\* whose first file is decoded and whose second failed, has started none.
C5_Witness ==
  \E u \in 1..Len(uploads) :
    /\ uploads[u].n > 1
    /\ StartedBy(u) # {}
    /\ \E v \in 1..Len(uploads) :
         /\ uploads[v].n > 1
         /\ uploads[v].status[1] = "done"
         /\ uploads[v].status[2] = "failed"
         /\ StartedBy(v) = {}

\* C6: a download is named pose_estimation_<n>.png with n the selected index
\* plus one at the call, and the call changes no component state.
C6_DownloadNameAndFrame ==
  [][download' # download
       => /\ download'[1].name
               = "pose_estimation_" \o ToString(currentImageIndex + 1) \o ".png"
          /\ UNCHANGED state]_vars

\* A download made with index 1 selected.
C6_Witness ==
  /\ download # <<>>
  /\ download[1].name = "pose_estimation_2.png"
  /\ currentImageIndex = 1

Confident(keypoints) ==
  {k \in 1..Len(keypoints) : keypoints[k].score > MinConfidence}

\* C7: the number of markers on the canvas equals the number of keypoints of
\* the displayed pose whose score is strictly greater than 0.5.
C7_MarkersCountConfident ==
  poses # <<>> => Len(canvas.markers) = Cardinality(Confident(poses[1].keypoints))

\* A displayed pose with a keypoint at exactly 0.5, which is not drawn, and
\* one above it.
C7_Witness ==
  /\ poses # <<>>
  /\ \E k \in 1..NumKeypoints : poses[1].keypoints[k].score = MinConfidence
  /\ \E k \in 1..NumKeypoints : poses[1].keypoints[k].score > MinConfidence
  /\ Len(canvas.markers) = NumKeypoints - 1

\* C8: no resolution is guarded: every successful one, a stale one included,
\* writes the pose of its own image to the state and the canvas and leaves
\* the selection alone.
C8_ResolutionWritesOwnImage ==
  [][\A c \in 1..Len(calls) :
       (calls[c].pc = "estimate" /\ calls'[c].pc = "ok")
         => /\ Shown(poses') = calls[c].img
            /\ canvas'.img = calls[c].img
            /\ currentImageIndex' = currentImageIndex
            /\ images' = images]_vars

\* C8: A selected, then B; B resolved first and A afterwards: the selection
\* is B, the pose and the canvas show A, nothing is in flight.
C8_StaleOverwrite ==
  /\ InFlight(calls) = {}
  /\ \E a, b \in 1..Len(calls) :
       /\ a < b /\ b = Len(calls)
       /\ calls[a].src = "select" /\ calls[b].src = "select"
       /\ calls[a].pc = "ok" /\ calls[b].pc = "ok"
       /\ calls[a].img # calls[b].img
       /\ \A c \in 1..Len(calls) : c # a => calls[c].img # calls[a].img
       /\ currentImageIndex = calls[b].from
       /\ SelectedShown(calls[b].img)
       /\ Shown(poses) = calls[a].img
       /\ canvas.img = calls[a].img

\* C9: whenever the image list is non-empty the selected index is a position
\* in it, and once the inference an upload started has resolved it refers to
\* the image whose pose is displayed.
C9_SelectedIndexValid ==
  Len(images) > 0
    => /\ currentImageIndex \in 0..(Len(images) - 1)
       /\ (/\ InFlight(calls) = {}
           /\ Len(calls) > 0
           /\ calls[Len(calls)].src = "upload"
           /\ calls[Len(calls)].pc = "ok")
            => SelectedShown(Shown(poses))

\* C10: a failing estimatePose call leaves the pose state and the canvas as
\* they were before the call started; only error and isLoading change.
C10_FailureKeepsDisplayOfStart ==
  [][\A c \in 1..Len(calls) :
       (mode = "upload" /\ calls[c].pc \in InFlightPc /\ calls'[c].pc = "failed")
         => /\ poses' = calls[c].posesAtStart
            /\ canvas' = calls[c].canvasAtStart
            /\ UNCHANGED <<images, currentImageIndex>>]_vars

====
